---- MODULE Spec2Model ----
(***************************************************************************)
(* Model of the autonomous scraping-plan pipeline of the RVO subsidy       *)
(* analyser (src/agent-ai-autonomous.js, src/server.js).                   *)
(*                                                                         *)
(* Strings are sequences of tokens, so that startsWith, includes and       *)
(* equality are computed and not assumed: a URL is a sequence such as      *)
(* <<"https://", "www.rvo.nl", "/", "a">>, an oracle response a sequence   *)
(* such as <<"~~~json", "{", "att1", "}", "~~~">>, where "~~~" stands for *)
(* the three backquotes of a markdown fence.                               *)
(***************************************************************************)
EXTENDS Integers, Sequences, FiniteSets, TLC

VARIABLES
    pc,            \* position of the one analyzeSubsidy call
    url,           \* argument of analyzeSubsidy
    mainPageData,  \* aiCreateScrapingPlan: result of the first scrapePage
    actualLinks,   \* aiCreateScrapingPlan: harvested page links
    plan,          \* scrapingPlan handed to aiExecuteScrapingPlan
    allPages,      \* aiExecuteScrapingPlan: page records
    allDocuments,  \* aiExecuteScrapingPlan: document records
    visitedUrls,   \* this.visitedUrls
    targets,       \* the slice the running for-of loop iterates
    idx,           \* index of the loop's current target
    exc,           \* exception in flight towards analyzeSubsidy's catch
    result,        \* value analyzeSubsidy returned
    requests,      \* history: number of requests issued, per kind and URL
    events,        \* history: outcomes that happened in this run
    inflight,      \* number of requests issued and not yet completed
    sinceDelay,    \* history: what the Crawl Executor got since its last delay
    arg,           \* input of the function under test (function specifications)
    ret,           \* its output
    runs           \* the analyses the server runs at the same time

vars == <<pc, url, mainPageData, actualLinks, plan, allPages, allDocuments,
          visitedUrls, targets, idx, exc, result, requests, events, inflight,
          sinceDelay, arg, ret, runs>>

pipeVars == <<pc, url, mainPageData, actualLinks, plan, allPages, allDocuments,
              visitedUrls, targets, idx, exc, result, requests, events, inflight,
              sinceDelay>>

(***************************************************************************)
(* Bounds                                                                  *)
(***************************************************************************)
MaxAnchors == 2      \* anchors in the main page's markup
MaxSubPages == 2     \* entries of sub_pages in an oracle plan
MaxDocuments == 2    \* entries of documents in an oracle plan
MaxLimit == 1        \* largest max_pages / max_documents the oracle states
MaxPlanText == 3     \* tokens of the oracle's plan response
MaxRunText == 3      \* tokens of the oracle's classification response in a run
MaxText == 4         \* tokens of a classification response under test
MaxPlanLen == 3      \* entries of sub_pages of a plan under test
MaxCrawlTargets == 1 \* entries of sub_pages, and of documents, of a concurrent analysis

(***************************************************************************)
(* Program constants                                                       *)
(***************************************************************************)
DefaultMaxPages == 8
DefaultMaxDocuments == 5
FallbackMaxPages == 1

(***************************************************************************)
(* Sequences and strings                                                   *)
(***************************************************************************)
Range(s) == {s[k] : k \in 1..Len(s)}

SeqsUpTo(S, n) == UNION {[1..k -> S] : k \in 0..n}

\* Array.prototype.slice(0, n) for n >= 0
Slice(s, n) == SubSeq(s, 1, IF n < Len(s) THEN n ELSE Len(s))

StartsWith(s, tok) == Len(s) > 0 /\ s[1] = tok

Includes(s, tok) == tok \in Range(s)

EmptyObject == [x \in {} |-> x]

\* an optional field: o is {} (absent) or {v}
Field(name, o) == IF o = {} THEN EmptyObject ELSE name :> (CHOOSE v \in o : TRUE)

Optional(S) == {{}} \cup {{v} : v \in S}

Has(obj, name) == name \in DOMAIN obj

(***************************************************************************)
(* URLs                                                                    *)
(***************************************************************************)
baseUrl == <<"https://", "www.rvo.nl">>

UrlMain == baseUrl \o <<"/", "m">>
UrlA    == baseUrl \o <<"/", "a">>
UrlDoc  == baseUrl \o <<"/", "d", ".pdf">>
UrlFake == baseUrl \o <<"/", "fake">>

Urls == {UrlMain, UrlA, UrlDoc, UrlFake}

Titles == {"", "T", "Unknown"}

(***************************************************************************)
(* Link harvesting                                                         *)
(***************************************************************************)
Hrefs == { <<"/", "a">>, UrlA, <<"/", "d", ".pdf">>, <<"/", "m">>,
           <<"https://", "ext.org", "/", "x">>, <<"#", "top">> }

\* an anchor of the markup: its href attribute and its trimmed text
Anchors == [href : Hrefs, text : {"", "t"}]

Htmls == SeqsUpTo(Anchors, MaxAnchors)

RECURSIVE KeepIdx(_, _, _)
KeepIdx(s, K, k) ==
    IF k > Len(s) THEN <<>>
    ELSE (IF k \in K THEN <<s[k]>> ELSE <<>>) \o KeepIdx(s, K, k + 1)

\* the anchors extractActualLinks pushes, in document order
PushesPageLink(a, visited) ==
    /\ a.href # <<>> /\ a.text # ""
    /\ LET fullUrl == IF StartsWith(a.href, "/") THEN baseUrl \o a.href ELSE a.href
       IN /\ StartsWith(a.href, "/") \/ StartsWith(a.href, "https://")
             \/ ~StartsWith(a.href, "#")
          /\ Includes(fullUrl, "www.rvo.nl")
          /\ fullUrl \notin visited

PageLinkOf(a) ==
    [url  |-> IF StartsWith(a.href, "/") THEN baseUrl \o a.href ELSE a.href,
     text |-> a.text, href |-> a.href]

extractActualLinks(html, visited) ==
    LET links == KeepIdx([k \in 1..Len(html) |-> PageLinkOf(html[k])],
                         {k \in 1..Len(html) : PushesPageLink(html[k], visited)}, 1)
        first(k) == \A j \in 1..(k - 1) : links[j].url # links[k].url
    IN KeepIdx(links, {k \in 1..Len(links) : first(k)}, 1)

(***************************************************************************)
(* Scraping plans                                                          *)
(***************************************************************************)
Entry(u) == [url |-> u, reason |-> "r", priority |-> "high"]

validateScrapingPlanThrows(p) == ~Has(p, "sub_pages")

\* a validator that also filters documents against the harvested links
validateScrapingPlanFiltersDocuments(p, links) ==
    LET actualUrls == {links[k].url : k \in 1..Len(links)}
        isValid(entry) == entry.url \in actualUrls
    IN [f \in DOMAIN p \cup {"sub_pages"} |->
          IF f \in {"sub_pages", "documents"} THEN SelectSeq(p[f], isValid) ELSE p[f]]

\* the plan is returned as the oracle wrote it
validateScrapingPlanUnfiltered(p, links) == p

validateScrapingPlan(p, links) ==
    LET actualUrls == {links[k].url : k \in 1..Len(links)}
        isValid(subPage) == subPage.url \in actualUrls
    IN [f \in DOMAIN p \cup {"sub_pages"} |->
          IF f = "sub_pages" THEN SelectSeq(p.sub_pages, isValid) ELSE p[f]]

\* a fallback plan that also carries an empty documents list
createFallbackScrapingPlanWithDocuments(mainUrl, pageData) ==
    [main_page |-> [url |-> mainUrl, title |-> pageData.title, priority |-> "high"],
     sub_pages |-> <<>>,
     documents |-> <<>>,
     max_pages |-> FallbackMaxPages,
     focus_keywords |-> <<>>]

createFallbackScrapingPlan(mainUrl, pageData) ==
    [main_page |-> [url |-> mainUrl, title |-> pageData.title, priority |-> "high"],
     sub_pages |-> <<>>,
     max_pages |-> FallbackMaxPages,
     focus_keywords |-> <<>>]

(***************************************************************************)
(* Oracle responses and JSON                                               *)
(***************************************************************************)
\* a member token stands for one "key":value pair and its separating comma
ClassMembers == {"att1", "attNull", "non1", "notes1", "notes0"}
PlanMembers  == {"members"}

\* JavaScript values: an array of strings, a string, null
Arr(s) == [t |-> "array", v |-> s]
Str(s) == [t |-> "string", v |-> <<s>>]
Null   == [t |-> "null", v |-> <<>>]

MemberKey(tok) ==
    CASE tok \in {"att1", "attNull"} -> "attestations"
      [] tok = "non1" -> "non_attestations"
      [] tok \in {"notes1", "notes0"} -> "analysis_notes"

MemberValue(tok) ==
    CASE tok = "att1" -> Arr(<<"kvk">>)
      [] tok = "attNull" -> Null
      [] tok = "non1" -> Arr(<<"projectplan">>)
      [] tok = "notes1" -> Str("ok")
      [] tok = "notes0" -> Str("")

Truthy(v) == v.t = "array" \/ (v.t = "string" /\ v # Str(""))

RECURSIVE TrimLeft(_)
TrimLeft(s) == IF Len(s) > 0 /\ s[1] = " " THEN TrimLeft(Tail(s)) ELSE s

RECURSIVE TrimRight(_)
TrimRight(s) ==
    IF Len(s) > 0 /\ s[Len(s)] = " " THEN TrimRight(SubSeq(s, 1, Len(s) - 1)) ELSE s

Trim(s) == TrimLeft(TrimRight(s))

NotSpace(tok) == tok # " "

\* JSON.parse on a text whose member tokens are drawn from members
JSONParse(text, members) ==
    LET t == SelectSeq(text, NotSpace)
    IN IF t = <<"null">> THEN [ok |-> TRUE, kind |-> "null", members |-> <<>>]
       ELSE IF t = <<"7">> THEN [ok |-> TRUE, kind |-> "number", members |-> <<>>]
       ELSE IF /\ Len(t) >= 2 /\ t[1] = "{" /\ t[Len(t)] = "}"
               /\ \A k \in 2..(Len(t) - 1) : t[k] \in members
            THEN [ok |-> TRUE, kind |-> "object", members |-> SubSeq(t, 2, Len(t) - 1)]
       ELSE [ok |-> FALSE, kind |-> "SyntaxError", members |-> <<>>]

\* the object a parsed classification text denotes: the last pair of a key wins
ClassObject(ms) ==
    LET keys == {MemberKey(ms[k]) : k \in 1..Len(ms)}
        last(key) == CHOOSE k \in 1..Len(ms) :
                        /\ MemberKey(ms[k]) = key
                        /\ \A j \in (k + 1)..Len(ms) : MemberKey(ms[j]) # key
    IN [key \in keys |-> MemberValue(ms[last(key)])]

fallbackAnalysis ==
    [attestations |-> Arr(<<>>),
     non_attestations |-> Arr(<<>>),
     analysis_notes |-> Str("Fallback analysis - no hardcoded patterns used")]

\* parsed.field ?? dflt: only an absent field takes the default
OrDefaultWhenAbsent(obj, name, dflt) ==
    IF Has(obj, name) THEN obj[name] ELSE dflt

\* parsed.field || dflt
OrDefault(obj, name, dflt) ==
    IF Has(obj, name) /\ Truthy(obj[name]) THEN obj[name] ELSE dflt

\* lines 305-310: the inner content of the first json fence, if a fence closes it
Unfence(s) ==
    IF ~Includes(s, "~~~json") THEN s
    ELSE LET o == CHOOSE k \in 1..Len(s) :
                     s[k] = "~~~json" /\ \A j \in 1..(k - 1) : s[j] # "~~~json"
             closers == {k \in (o + 1)..Len(s) : s[k] \in {"~~~", "~~~json"}}
         IN IF closers = {} THEN s
            ELSE LET c == CHOOSE k \in closers : \A j \in closers : k <= j
                 IN Trim(SubSeq(s, o + 1, c - 1))

\* lines 313-319: the text from the first "{" to the last "}"
BraceSlice(s) ==
    IF ~(Includes(s, "{") /\ Includes(s, "}")) THEN s
    ELSE LET startIndex == CHOOSE k \in 1..Len(s) :
                              s[k] = "{" /\ \A j \in 1..(k - 1) : s[j] # "{"
             lastIndex == CHOOSE k \in 1..Len(s) :
                              s[k] = "}" /\ \A j \in (k + 1)..Len(s) : s[j] # "}"
         IN IF lastIndex > startIndex THEN SubSeq(s, startIndex, lastIndex) ELSE s

Sanitize(response) == BraceSlice(Unfence(Trim(response)))

\* the catch of a parse failure answers with whatever the text held
ParseClassificationKeepsText(response) ==
    LET parsed == JSONParse(Sanitize(Trim(response)), ClassMembers)
    IN IF ~parsed.ok \/ parsed.kind = "null"
       THEN [attestations |-> Arr(SelectSeq(response, LAMBDA tok : tok \in ClassMembers)),
             non_attestations |-> Arr(<<>>),
             analysis_notes |-> Str("")]
       ELSE LET obj == ClassObject(parsed.members)
            IN [attestations |-> OrDefault(obj, "attestations", Arr(<<>>)),
                non_attestations |-> OrDefault(obj, "non_attestations", Arr(<<>>)),
                analysis_notes |-> OrDefault(obj, "analysis_notes", Str("AI analysis completed"))]

\* lines 298-330 of aiAnalyzeAllData: what it returns for an oracle response
ParseClassification(response) ==
    LET parsed == JSONParse(Sanitize(Trim(response)), ClassMembers)
    IN IF ~parsed.ok \/ parsed.kind = "null" THEN fallbackAnalysis
       ELSE LET obj == ClassObject(parsed.members)
            IN [attestations |-> OrDefault(obj, "attestations", Arr(<<>>)),
                non_attestations |-> OrDefault(obj, "non_attestations", Arr(<<>>)),
                analysis_notes |-> OrDefault(obj, "analysis_notes", Str("AI analysis completed"))]

\* a raising completion request is answered like an empty JSON object
aiAnalyzeAllDataDefaults(oracle, response) ==
    IF oracle = "raises"
    THEN [attestations |-> Arr(<<>>), non_attestations |-> Arr(<<>>),
          analysis_notes |-> Str("AI analysis completed")]
    ELSE ParseClassification(response)

\* lines 281-334: the completion request raises, or its answer is parsed
aiAnalyzeAllData(oracle, response) ==
    IF oracle = "raises" THEN fallbackAnalysis ELSE ParseClassification(response)

ClassTokens == {"{", "}", "prose", "~~~json", "~~~", " ", "null", "7"} \cup ClassMembers
PlanTokens == {"{", "}", "prose", "~~~json", "~~~", " ", "null"} \cup PlanMembers

(***************************************************************************)
(* Documents                                                               *)
(***************************************************************************)
Lower(tok) ==
    CASE tok = ".PDF" -> ".pdf"
      [] OTHER -> tok

\* url.toLowerCase().includes(ext): the tokens whose text contains ext
ExtTokens(ext) ==
    CASE ext = ".doc" -> {".doc", ".docx"}
      [] ext = ".xls" -> {".xls", ".xlsx"}
      [] ext = ".ppt" -> {".ppt", ".pptx"}
      [] OTHER -> {ext}

IncludesExt(u, ext) == \E k \in 1..Len(u) : Lower(u[k]) \in ExtTokens(ext)

getDocumentType(u) ==
    IF IncludesExt(u, ".pdf") THEN "pdf"
    ELSE IF IncludesExt(u, ".docx") \/ IncludesExt(u, ".doc") THEN "docx"
    ELSE IF IncludesExt(u, ".xlsx") \/ IncludesExt(u, ".xls") THEN "xlsx"
    ELSE IF IncludesExt(u, ".pptx") \/ IncludesExt(u, ".ppt") THEN "pptx"
    ELSE "unknown"

documentExtensions == {".pdf", ".doc", ".docx", ".xls", ".xlsx", ".ppt", ".pptx"}

isDocument(fullUrl) == \E ext \in documentExtensions : IncludesExt(fullUrl, ext)

\* the anchors extractDocumentLinks pushes: an href is enough, the text may be
\* empty, the host is not looked at and a fragment href is not skipped
PushesDocumentLink(a, visited) ==
    /\ a.href # <<>>
    /\ LET fullUrl == IF StartsWith(a.href, "/") THEN baseUrl \o a.href ELSE a.href
       IN isDocument(fullUrl) /\ fullUrl \notin visited

DocumentLinkOf(a) ==
    LET fullUrl == IF StartsWith(a.href, "/") THEN baseUrl \o a.href ELSE a.href
    IN [url |-> fullUrl, text |-> a.text, href |-> a.href,
        type |-> getDocumentType(fullUrl)]

\* every pushed anchor is returned, in document order
extractDocumentLinks(html, visited) ==
    KeepIdx([k \in 1..Len(html) |-> DocumentLinkOf(html[k])],
            {k \in 1..Len(html) : PushesDocumentLink(html[k], visited)}, 1)

\* the texts extractDocumentText can return once the bytes are fetched
ExtractedTexts(documentType) ==
    IF documentType \in {"pdf", "docx", "xlsx"} THEN {"", "text"} ELSE {""}

(***************************************************************************)
(* The plans the oracle can answer with                                    *)
(***************************************************************************)
SubPageUrls == {UrlA, UrlFake}
DocumentUrls == {UrlDoc, UrlA}

Entries(U) == {Entry(u) : u \in U}

MainPageEntry == [url |-> UrlMain, title |-> "T", priority |-> "high"]

OraclePlans ==
    { Field("main_page", mp) @@ Field("sub_pages", sp) @@ Field("documents", dc)
        @@ Field("max_pages", mx) @@ Field("max_documents", md)
        @@ Field("focus_keywords", {<<"requirement">>}) :
        mp \in Optional({MainPageEntry}),
        sp \in Optional(SeqsUpTo(Entries(SubPageUrls), MaxSubPages)),
        dc \in Optional(SeqsUpTo(Entries(DocumentUrls), MaxDocuments)),
        mx \in Optional(0..MaxLimit),
        md \in Optional(0..MaxLimit) }

\* plan.max_pages || 8, plan.max_documents || 5
Limit(p, name, dflt) == IF Has(p, name) /\ p[name] # 0 THEN p[name] ELSE dflt

(***************************************************************************)
(* analyzeSubsidy                                                          *)
(***************************************************************************)
NoData == [none |-> TRUE]
NoExc == [from |-> "none", message |-> ""]

NoRequests ==
    [planGet |-> 0, planOracle |-> 0, classOracle |-> 0, execMainGet |-> 0,
     docBytes |-> 0, delays |-> 0,
     execGet |-> [u \in Urls |-> 0], execHead |-> [u \in Urls |-> 0]]

Bump(r, kind) == [r EXCEPT ![kind] = @ + 1]
BumpUrl(r, kind, u) == [r EXCEPT ![kind][u] = @ + 1]

IdleFunction == arg = NoData /\ ret = NoData

Init ==
    /\ pc = "plan_scrape"
    /\ url = UrlMain
    /\ mainPageData = NoData
    /\ actualLinks = <<>>
    /\ plan = NoData
    /\ allPages = <<>>
    /\ allDocuments = <<>>
    /\ visitedUrls = {}
    /\ targets = <<>>
    /\ idx = 0
    /\ exc = NoExc
    /\ result = NoData
    /\ requests = NoRequests
    /\ events = {}
    /\ inflight = 0
    /\ sinceDelay = "none"
    /\ IdleFunction
    /\ runs = NoData

\* lines 81-89: the first scrapePage of aiCreateScrapingPlan and the harvest
PlanScrapeMain ==
    /\ pc = "plan_scrape"
    /\ inflight > 0
    /\ inflight' = inflight - 1
    /\ \/ /\ events' = events \cup {"planFetchFailed"}
          /\ pc' = "plan_rescrape"
          /\ UNCHANGED <<mainPageData, actualLinks>>
       \/ \E title \in Titles, html \in Htmls :
            /\ mainPageData' = [title |-> title]
            /\ actualLinks' = extractActualLinks(html, visitedUrls)
            /\ pc' = "plan_oracle"
            /\ UNCHANGED events
    /\ UNCHANGED <<url, plan, allPages, allDocuments, visitedUrls, targets, idx,
                   exc, result, arg, ret, runs>>
    /\ UNCHANGED <<requests, sinceDelay>>

\* line 161: what JSON.parse makes of the plan responses the oracle can give
PlanParses == {JSONParse(Trim(text), PlanMembers) : text \in SeqsUpTo(PlanTokens, MaxPlanText)}

\* a parsed response that denotes the plan object the oracle wrote
DenotesPlan(parsed) == parsed.ok /\ parsed.kind = "object" /\ parsed.members # <<>>

\* lines 160-169: validation of the parsed plan, or the fallback plan
PlanOfResponse(parsed, p, links, mainUrl, pageData) ==
    IF ~parsed.ok
      THEN [plan |-> createFallbackScrapingPlan(mainUrl, pageData), event |-> "planParseFailed"]
    ELSE IF ~DenotesPlan(parsed) \/ validateScrapingPlanThrows(p)
      THEN [plan |-> createFallbackScrapingPlan(mainUrl, pageData), event |-> "planInvalid"]
    ELSE [plan |-> validateScrapingPlan(p, links), event |-> "planValidated"]

\* lines 142-174: the oracle call of aiCreateScrapingPlan
PlanOracle ==
    /\ pc = "plan_oracle"
    /\ inflight > 0
    /\ inflight' = inflight - 1
    /\ \/ /\ events' = events \cup {"planOracleRaised"}
          /\ pc' = "plan_rescrape"
          /\ UNCHANGED <<plan, mainPageData, actualLinks>>
       \/ \E parsed \in PlanParses :
            \E p \in IF DenotesPlan(parsed) THEN OraclePlans ELSE {EmptyObject} :
              LET out == PlanOfResponse(parsed, p, actualLinks, url, mainPageData)
              IN /\ plan' = out.plan
                 /\ events' = events \cup {out.event}
                 /\ pc' = "exec_main"
                 /\ mainPageData' = NoData
                 /\ actualLinks' = <<>>
    /\ UNCHANGED <<url, allPages, allDocuments, visitedUrls, targets, idx,
                   exc, result, arg, ret, runs>>
    /\ UNCHANGED <<requests, sinceDelay>>

\* lines 171-174: the catch of aiCreateScrapingPlan scrapes the main page again
PlanRescrape ==
    /\ pc = "plan_rescrape"
    /\ inflight > 0
    /\ inflight' = inflight - 1
    /\ \/ /\ exc' = [from |-> "aiCreateScrapingPlan", message |-> "Failed to scrape"]
          /\ events' = events \cup {"planRefetchFailed"}
          /\ pc' = "catch"
          /\ UNCHANGED plan
       \/ \E title \in Titles :
            /\ plan' = createFallbackScrapingPlan(url, [title |-> title])
            /\ pc' = "exec_main"
            /\ UNCHANGED <<exc, events>>
    /\ mainPageData' = NoData
    /\ actualLinks' = <<>>
    /\ UNCHANGED <<url, allPages, allDocuments, visitedUrls, targets, idx,
                   result, arg, ret, runs>>
    /\ UNCHANGED <<requests, sinceDelay>>

PageRecord(u, title, priority, reason) ==
    [url |-> u, title |-> title, priority |-> priority, reason |-> reason]

\* lines 182-197: the main page of the plan, then the slice of sub_pages
ExecMain ==
    /\ pc = "exec_main"
    /\ IF Has(plan, "main_page")
         THEN /\ inflight > 0
              /\ inflight' = inflight - 1
              /\ \/ \E title \in Titles :
                      /\ allPages' = Append(allPages,
                            PageRecord(plan.main_page.url, title,
                                       plan.main_page.priority, "Main subsidy page"))
                      /\ UNCHANGED events
                 \/ /\ events' = events \cup {"execMainFailed"}
                    /\ UNCHANGED allPages
         ELSE UNCHANGED <<inflight, allPages, events>>
    /\ targets' = Slice(plan.sub_pages, Limit(plan, "max_pages", DefaultMaxPages))
    /\ idx' = 1
    /\ pc' = "exec_sub"
    /\ UNCHANGED <<url, mainPageData, actualLinks, plan, allDocuments, visitedUrls,
                   exc, result, requests, sinceDelay, arg, ret, runs>>

\* line 199: a visited sub-page is skipped
ExecSubSkip ==
    /\ pc = "exec_sub" /\ idx <= Len(targets)
    /\ targets[idx].url \in visitedUrls
    /\ idx' = idx + 1
    /\ UNCHANGED <<pc, url, mainPageData, actualLinks, plan, allPages, allDocuments,
                   visitedUrls, targets, exc, result, requests, events, arg, ret, runs>>
    /\ UNCHANGED <<inflight, sinceDelay>>

\* lines 199-202, 557-569: the HEAD probe of a sub-page
ExecSubProbe ==
    /\ pc = "exec_sub" /\ idx <= Len(targets)
    /\ targets[idx].url \notin visitedUrls
    /\ inflight > 0
    /\ inflight' = inflight - 1
    /\ \/ pc' = "exec_sub_get" /\ UNCHANGED idx
       \/ pc' = pc /\ idx' = idx + 1
    /\ UNCHANGED <<url, mainPageData, actualLinks, plan, allPages, allDocuments,
                   visitedUrls, targets, exc, result, events, arg, ret, runs>>
    /\ UNCHANGED <<requests, sinceDelay>>

\* the sub-page loop without its setTimeout: a retrieved page is followed by
\* the next target at once
ExecSubScrapeNoDelay ==
    /\ pc = "exec_sub_get"
    /\ inflight > 0
    /\ inflight' = inflight - 1
    /\ \/ \E title \in Titles :
            /\ allPages' = Append(allPages,
                  PageRecord(targets[idx].url, title,
                             targets[idx].priority, targets[idx].reason))
            /\ visitedUrls' = visitedUrls \cup {targets[idx].url}
            /\ sinceDelay' = "recorded"
            /\ pc' = "exec_sub"
            /\ idx' = idx + 1
       \/ /\ pc' = "exec_sub"
          /\ idx' = idx + 1
          /\ UNCHANGED <<allPages, visitedUrls, sinceDelay>>
    /\ UNCHANGED <<url, mainPageData, actualLinks, plan, allDocuments, targets,
                   exc, result, requests, events, arg, ret, runs>>

\* lines 203-209, 216: the GET of a sub-page whose probe succeeded
ExecSubScrape ==
    /\ pc = "exec_sub_get"
    /\ inflight > 0
    /\ inflight' = inflight - 1
    /\ \/ \E title \in Titles :
            /\ allPages' = Append(allPages,
                  PageRecord(targets[idx].url, title,
                             targets[idx].priority, targets[idx].reason))
            /\ visitedUrls' = visitedUrls \cup {targets[idx].url}
            /\ sinceDelay' = "recorded"
            /\ pc' = "exec_sub_delay"
            /\ UNCHANGED idx
       \/ /\ pc' = "exec_sub"
          /\ idx' = idx + 1
          /\ UNCHANGED <<allPages, visitedUrls, sinceDelay>>
    /\ UNCHANGED <<url, mainPageData, actualLinks, plan, allDocuments, targets,
                   exc, result, requests, events, arg, ret, runs>>

\* line 212: the delay after a retrieved sub-page
ExecSubDelay ==
    /\ pc = "exec_sub_delay"
    /\ pc' = "exec_sub"
    /\ idx' = idx + 1
    /\ requests' = Bump(requests, "delays")
    /\ sinceDelay' = "none"
    /\ UNCHANGED <<url, mainPageData, actualLinks, plan, allPages, allDocuments,
                   visitedUrls, targets, exc, result, events, inflight, arg, ret, runs>>

\* line 221: after the last sub-page, the slice of plan.documents
ExecDocumentsSlice ==
    /\ pc = "exec_sub" /\ idx > Len(targets)
    /\ IF Has(plan, "documents")
         THEN /\ targets' = Slice(plan.documents, Limit(plan, "max_documents", DefaultMaxDocuments))
              /\ idx' = 1
              /\ pc' = "exec_doc"
              /\ UNCHANGED <<exc, events>>
         ELSE /\ exc' = [from |-> "aiExecuteScrapingPlan", message |-> "TypeError"]
              /\ events' = events \cup {"execThrew"}
              /\ pc' = "catch"
              /\ UNCHANGED <<targets, idx>>
    /\ UNCHANGED <<url, mainPageData, actualLinks, plan, allPages, allDocuments,
                   visitedUrls, result, requests, arg, ret, runs>>
    /\ UNCHANGED <<inflight, sinceDelay>>

\* line 223: a visited document is skipped
ExecDocSkip ==
    /\ pc = "exec_doc" /\ idx <= Len(targets)
    /\ targets[idx].url \in visitedUrls
    /\ idx' = idx + 1
    /\ UNCHANGED <<pc, url, mainPageData, actualLinks, plan, allPages, allDocuments,
                   visitedUrls, targets, exc, result, requests, events, arg, ret, runs>>
    /\ UNCHANGED <<inflight, sinceDelay>>

\* document.url.split('/').pop() || 'Document'
LastSegment(u) ==
    LET slashes == {k \in 1..Len(u) : u[k] = "/"}
        from == IF slashes = {} THEN 1
                ELSE 1 + CHOOSE k \in slashes : \A j \in slashes : j <= k
    IN IF from > Len(u) THEN <<"Document">> ELSE SubSeq(u, from, Len(u))

DocumentRecord(entry, text, documentType) ==
    [url |-> entry.url, title |-> LastSegment(entry.url), textContent |-> text,
     priority |-> entry.priority, reason |-> entry.reason, type |-> documentType]

\* the document loop without its if (documentText): every fetched document is
\* recorded
ExecDocFetchRecordsEmpty ==
    /\ pc = "exec_doc" /\ idx <= Len(targets)
    /\ targets[idx].url \notin visitedUrls
    /\ inflight > 0
    /\ inflight' = inflight - 1
    /\ LET documentType == getDocumentType(targets[idx].url)
       IN \/ /\ idx' = idx + 1
             /\ UNCHANGED <<pc, allDocuments, visitedUrls, requests, events, sinceDelay>>
          \/ \E documentText \in ExtractedTexts(documentType) :
               /\ requests' = Bump(requests, "docBytes")
               /\ allDocuments' = Append(allDocuments,
                     DocumentRecord(targets[idx], documentText, documentType))
               /\ visitedUrls' = visitedUrls \cup {targets[idx].url}
               /\ sinceDelay' = "recorded"
               /\ pc' = "exec_doc_delay"
               /\ events' = IF documentText = "" THEN events \cup {"docEmptyText"}
                            ELSE events
               /\ UNCHANGED idx
    /\ UNCHANGED <<url, mainPageData, actualLinks, plan, allPages, targets,
                   exc, result, arg, ret, runs>>

\* lines 223-237, 430-458: the GET of a document and the extraction of its text
ExecDocFetch ==
    /\ pc = "exec_doc" /\ idx <= Len(targets)
    /\ targets[idx].url \notin visitedUrls
    /\ inflight > 0
    /\ inflight' = inflight - 1
    /\ LET documentType == getDocumentType(targets[idx].url)
       IN \/ \* the fetch fails: extractDocumentText returns ''
             /\ idx' = idx + 1
             /\ UNCHANGED <<pc, allDocuments, visitedUrls, requests, events, sinceDelay>>
          \/ \* the bytes arrive and the extractor of the type runs
             \E documentText \in ExtractedTexts(documentType) :
               /\ requests' = Bump(requests, "docBytes")
               /\ IF documentText # ""
                    THEN /\ allDocuments' = Append(allDocuments,
                               DocumentRecord(targets[idx], documentText, documentType))
                         /\ visitedUrls' = visitedUrls \cup {targets[idx].url}
                         /\ sinceDelay' = "recorded"
                         /\ pc' = "exec_doc_delay"
                         /\ UNCHANGED <<idx, events>>
                    ELSE /\ idx' = idx + 1
                         /\ events' = events \cup {"docEmptyText"}
                         /\ sinceDelay' = "retrieved"
                         /\ UNCHANGED <<pc, allDocuments, visitedUrls>>
    /\ UNCHANGED <<url, mainPageData, actualLinks, plan, allPages, targets,
                   exc, result, arg, ret, runs>>

\* line 239: the delay after a recorded document
ExecDocDelay ==
    /\ pc = "exec_doc_delay"
    /\ pc' = "exec_doc"
    /\ idx' = idx + 1
    /\ requests' = Bump(requests, "delays")
    /\ sinceDelay' = "none"
    /\ UNCHANGED <<url, mainPageData, actualLinks, plan, allPages, allDocuments,
                   visitedUrls, targets, exc, result, events, inflight, arg, ret, runs>>

\* lines 246-250: aiExecuteScrapingPlan returns
ExecReturn ==
    /\ pc = "exec_doc" /\ idx > Len(targets)
    /\ pc' = "classify"
    /\ targets' = <<>>
    /\ idx' = 0
    /\ sinceDelay' = "none"
    /\ UNCHANGED <<url, mainPageData, actualLinks, plan, allPages, allDocuments,
                   visitedUrls, exc, result, requests, events, inflight, arg, ret, runs>>

\* a result whose title falls back only when there is no first page (?? for ||)
SuccessResultNullish(requirements) ==
    [url |-> url,
     title |-> IF allPages # <<>> THEN allPages[1].title ELSE "Unknown",
     requirements |-> requirements,
     analyzed_at |-> "now",
     pages_analyzed |-> Len(allPages),
     ai_scraping_plan |-> plan]

\* lines 52-59: the success result of analyzeSubsidy
SuccessResult(requirements) ==
    [url |-> url,
     title |-> IF allPages # <<>> /\ allPages[1].title # ""
               THEN allPages[1].title ELSE "Unknown",
     requirements |-> requirements,
     analyzed_at |-> "now",
     pages_analyzed |-> Len(allPages),
     ai_scraping_plan |-> plan]

\* lines 298-330: what aiAnalyzeAllData makes of the responses the oracle can give
ClassOutcomes ==
    { [requirements |-> aiAnalyzeAllData("answers", text),
       event |-> IF JSONParse(Sanitize(Trim(text)), ClassMembers).ok
                 THEN "classParsed" ELSE "classParseFailed"] :
      text \in SeqsUpTo(ClassTokens, MaxRunText) }

\* lines 281-334 and 52-59: the classification oracle call and the success result
Classify ==
    /\ pc = "classify"
    /\ inflight > 0
    /\ inflight' = inflight - 1
    /\ \/ /\ events' = events \cup {"classOracleRaised"}
          /\ result' = SuccessResult(aiAnalyzeAllData("raises", <<>>))
       \/ \E out \in ClassOutcomes :
            /\ events' = events \cup {out.event}
            /\ result' = SuccessResult(out.requirements)
    /\ pc' = "done"
    /\ UNCHANGED <<url, mainPageData, actualLinks, plan, allPages, allDocuments,
                   visitedUrls, targets, idx, exc, arg, ret, runs>>
    /\ UNCHANGED <<requests, sinceDelay>>

\* analyzeSubsidy without its catch: the exception leaves the call
AnalyzeCatchRethrows ==
    /\ pc = "catch"
    /\ pc' = "done"
    /\ UNCHANGED <<url, mainPageData, actualLinks, plan, allPages, allDocuments,
                   visitedUrls, targets, idx, exc, result, requests, events, arg, ret, runs>>
    /\ UNCHANGED <<inflight, sinceDelay>>

\* lines 61-68: the catch of analyzeSubsidy
AnalyzeCatch ==
    /\ pc = "catch"
    /\ result' = [url |-> url, error |-> exc.message, analyzed_at |-> "now"]
    /\ exc' = NoExc
    /\ pc' = "done"
    /\ UNCHANGED <<url, mainPageData, actualLinks, plan, allPages, allDocuments,
                   visitedUrls, targets, idx, requests, events, arg, ret, runs>>
    /\ UNCHANGED <<inflight, sinceDelay>>

NoRequest == [kind |-> "none", url |-> <<>>]

\* the request the code is about to issue at its position, if any
PendingRequest ==
    CASE pc \in {"plan_scrape", "plan_rescrape"} -> [kind |-> "planGet", url |-> url]
      [] pc = "plan_oracle" -> [kind |-> "planOracle", url |-> <<>>]
      [] pc = "exec_main" /\ Has(plan, "main_page") ->
           [kind |-> "execMainGet", url |-> plan.main_page.url]
      [] pc = "exec_sub" /\ idx <= Len(targets) /\ targets[idx].url \notin visitedUrls ->
           [kind |-> "execHead", url |-> targets[idx].url]
      [] pc = "exec_sub_get" -> [kind |-> "execGet", url |-> targets[idx].url]
      [] pc = "exec_doc" /\ idx <= Len(targets) /\ targets[idx].url \notin visitedUrls ->
           [kind |-> "execGet", url |-> targets[idx].url]
      [] pc = "classify" -> [kind |-> "classOracle", url |-> <<>>]
      [] OTHER -> NoRequest

Issued(r, req) ==
    IF req.kind \in {"execHead", "execGet"} THEN BumpUrl(r, req.kind, req.url)
    ELSE Bump(r, req.kind)

\* requests are fired without waiting for the one before (Promise.all style)
IssueUnawaited ==
    /\ PendingRequest # NoRequest
    /\ inflight < 2
    /\ inflight' = inflight + 1
    /\ requests' = Issued(requests, PendingRequest)
    /\ UNCHANGED <<pc, url, mainPageData, actualLinks, plan, allPages, allDocuments,
                   visitedUrls, targets, idx, exc, result, events, sinceDelay, arg, ret, runs>>

\* every fetch and every completion is awaited: the request of the current
\* position goes out once the one before has completed
Issue ==
    /\ PendingRequest # NoRequest
    /\ inflight = 0
    /\ inflight' = inflight + 1
    /\ requests' = Issued(requests, PendingRequest)
    /\ UNCHANGED <<pc, url, mainPageData, actualLinks, plan, allPages, allDocuments,
                   visitedUrls, targets, idx, exc, result, events, sinceDelay, arg, ret, runs>>

Next ==
    \/ Issue
    \/ PlanScrapeMain
    \/ PlanOracle
    \/ PlanRescrape
    \/ ExecMain
    \/ ExecSubSkip
    \/ ExecSubProbe
    \/ ExecSubScrape
    \/ ExecSubDelay
    \/ ExecDocumentsSlice
    \/ ExecDocSkip
    \/ ExecDocFetch
    \/ ExecDocDelay
    \/ ExecReturn
    \/ Classify
    \/ AnalyzeCatch

Spec == Init /\ [][Next]_vars

(***************************************************************************)
(* validateScrapingPlan on its own: any oracle plan against any harvest    *)
(***************************************************************************)
IdlePipeline ==
    /\ pc = "idle"
    /\ url = UrlMain
    /\ mainPageData = NoData
    /\ actualLinks = <<>>
    /\ plan = NoData
    /\ allPages = <<>>
    /\ allDocuments = <<>>
    /\ visitedUrls = {}
    /\ targets = <<>>
    /\ idx = 0
    /\ exc = NoExc
    /\ result = NoData
    /\ requests = NoRequests
    /\ events = {}
    /\ inflight = 0
    /\ sinceDelay = "none"

HarvestedLinks == {extractActualLinks(html, {}) : html \in Htmls}

TestPlans ==
    { Field("main_page", mp) @@ Field("sub_pages", sp) @@ Field("documents", dc)
        @@ Field("max_pages", mx) @@ Field("max_documents", md)
        @@ Field("focus_keywords", fk) :
        mp \in Optional({MainPageEntry}),
        sp \in Optional(SeqsUpTo(Entries(Urls), MaxPlanLen)),
        dc \in Optional({<<>>, <<Entry(UrlDoc)>>, <<Entry(UrlFake)>>}),
        mx \in Optional({1}),
        md \in Optional({1}),
        fk \in Optional({<<"requirement">>}) }

InitValidate ==
    /\ IdlePipeline
    /\ runs = NoData
    /\ arg \in [plan : TestPlans, links : HarvestedLinks]
    /\ ret = NoData

ValidateStep ==
    /\ ret = NoData
    /\ ret' = IF validateScrapingPlanThrows(arg.plan)
              THEN [threw |-> TRUE]
              ELSE [threw |-> FALSE, plan |-> validateScrapingPlan(arg.plan, arg.links)]
    /\ UNCHANGED <<pipeVars, arg, runs>>

SpecValidate == InitValidate /\ [][ValidateStep]_vars

(***************************************************************************)
(* aiAnalyzeAllData on its own: any oracle outcome                         *)
(***************************************************************************)
\* lines 63-72 of server.js: the body POST /analyze answers with
AnalyzeResponse(requirements) ==
    [attestations |-> IF Truthy(requirements.attestations)
                      THEN requirements.attestations ELSE Arr(<<>>),
     non_attestations |-> IF Truthy(requirements.non_attestations)
                          THEN requirements.non_attestations ELSE Arr(<<>>),
     analysis_notes |-> IF Truthy(requirements.analysis_notes)
                        THEN requirements.analysis_notes ELSE Str("")]

InitClassify ==
    /\ IdlePipeline
    /\ runs = NoData
    /\ arg \in [oracle : {"answers"}, response : SeqsUpTo(ClassTokens, MaxText)]
               \cup {[oracle |-> "raises", response |-> <<>>]}
    /\ ret = NoData

ClassifyStep ==
    /\ ret = NoData
    /\ ret' = aiAnalyzeAllData(arg.oracle, arg.response)
    /\ UNCHANGED <<pipeVars, arg, runs>>

SpecClassify == InitClassify /\ [][ClassifyStep]_vars

(***************************************************************************)
(* The two harvesters on their own: any markup, any visited set            *)
(***************************************************************************)
InitHarvest ==
    /\ IdlePipeline
    /\ runs = NoData
    /\ arg \in [html : Htmls, visited : SUBSET {UrlA, UrlDoc}]
    /\ ret = NoData

\* lines 86 and 89: both harvesters run on the same markup
HarvestStep ==
    /\ ret = NoData
    /\ ret' = [actualLinks   |-> extractActualLinks(arg.html, arg.visited),
               documentLinks |-> extractDocumentLinks(arg.html, arg.visited)]
    /\ UNCHANGED <<pipeVars, arg, runs>>

SpecHarvest == InitHarvest /\ [][HarvestStep]_vars

(***************************************************************************)
(* Two requests of POST /analyze served at the same time: each handler     *)
(* runs the crawl of its plan on its agent, and the handlers interleave at *)
(* their awaits                                                            *)
(***************************************************************************)
Requests == {1, 2}

\* the agent is a module-level singleton shared by the handlers
AgentOfShared(request) == 1

\* server.js line 50: const agent = new RVOAgentAIAutonomous(), per request
AgentOf(request) == request

CrawlPlans ==
    [sub_pages : SeqsUpTo(Entries({UrlA, UrlDoc}), MaxCrawlTargets),
     documents : SeqsUpTo(Entries({UrlDoc, UrlA}), MaxCrawlTargets)]

\* the constructor, lines 20-24: a new agent has an empty visitedUrls
NewRun == [at |-> "sub", idx |-> 1, issued |-> <<>>]

InitConcurrent ==
    /\ IdlePipeline
    /\ ret = NoData
    /\ arg \in [plans : [Requests -> CrawlPlans],
                 web : [{UrlA, UrlDoc} -> BOOLEAN]]
    /\ runs = [visitedUrls |-> [a \in {AgentOf(r) : r \in Requests} |-> {}],
               of |-> [r \in Requests |-> NewRun]]

RunTargets(r) ==
    IF runs.of[r].at \in {"sub", "sub_head", "sub_get", "sub_delay"}
    THEN arg.plans[r].sub_pages ELSE arg.plans[r].documents

RunTarget(r) == RunTargets(r)[runs.of[r].idx]

RunVisited(r) == runs.visitedUrls[AgentOf(r)]

Request(method, u) == [method |-> method, url |-> u]

\* lines 197 and 221, 246: a loop is over
RunLoopEnd(r) ==
    /\ runs.of[r].at \in {"sub", "doc"}
    /\ runs.of[r].idx > Len(RunTargets(r))
    /\ runs' = [runs EXCEPT !.of[r].at = IF @ = "sub" THEN "doc" ELSE "done",
                            !.of[r].idx = 1]

\* lines 199 and 223: a visited target is skipped
RunSkip(r) ==
    /\ runs.of[r].at \in {"sub", "doc"}
    /\ runs.of[r].idx <= Len(RunTargets(r))
    /\ RunTarget(r).url \in RunVisited(r)
    /\ runs' = [runs EXCEPT !.of[r].idx = @ + 1]

\* lines 201 and 225: the HEAD of a sub-page, the GET of a document
RunIssue(r) ==
    /\ runs.of[r].at \in {"sub", "doc"}
    /\ runs.of[r].idx <= Len(RunTargets(r))
    /\ RunTarget(r).url \notin RunVisited(r)
    /\ runs' = [runs EXCEPT
                  !.of[r].at = IF @ = "sub" THEN "sub_head" ELSE "doc_get",
                  !.of[r].issued =
                     Append(@, Request(IF runs.of[r].at = "sub" THEN "HEAD" ELSE "GET",
                                       RunTarget(r).url))]

\* lines 201-203: the probe answers; the GET follows when the URL exists
RunProbed(r) ==
    /\ runs.of[r].at = "sub_head"
    /\ runs' = IF arg.web[RunTarget(r).url]
               THEN [runs EXCEPT !.of[r].at = "sub_get",
                                 !.of[r].issued = Append(@, Request("GET", RunTarget(r).url))]
               ELSE [runs EXCEPT !.of[r].at = "sub", !.of[r].idx = @ + 1]

\* lines 203-209 and 225-236: the GET answers; a retrieved target is marked
RunRetrieved(r) ==
    /\ runs.of[r].at \in {"sub_get", "doc_get"}
    /\ runs' = IF arg.web[RunTarget(r).url]
               THEN [runs EXCEPT
                       !.visitedUrls[AgentOf(r)] = @ \cup {RunTarget(r).url},
                       !.of[r].at = IF @ = "sub_get" THEN "sub_delay" ELSE "doc_delay"]
               ELSE [runs EXCEPT !.of[r].at = IF @ = "sub_get" THEN "sub" ELSE "doc",
                                 !.of[r].idx = @ + 1]

\* lines 212 and 239: the delay is over
RunDelayed(r) ==
    /\ runs.of[r].at \in {"sub_delay", "doc_delay"}
    /\ runs' = [runs EXCEPT !.of[r].at = IF @ = "sub_delay" THEN "sub" ELSE "doc",
                            !.of[r].idx = @ + 1]

NextConcurrent ==
    /\ \E r \in Requests :
         \/ RunLoopEnd(r)
         \/ RunSkip(r)
         \/ RunIssue(r)
         \/ RunProbed(r)
         \/ RunRetrieved(r)
         \/ RunDelayed(r)
    /\ UNCHANGED <<pipeVars, arg, ret>>

SpecConcurrent == InitConcurrent /\ [][NextConcurrent]_vars

RECURSIVE AloneLoop(_, _, _, _, _)
\* the requests one loop of aiExecuteScrapingPlan issues when nothing else
\* runs, and the visited set it leaves
AloneLoop(kind, entries, k, visited, web) ==
    IF k > Len(entries) THEN [issued |-> <<>>, visited |-> visited]
    ELSE LET u == entries[k].url
         IN IF u \in visited THEN AloneLoop(kind, entries, k + 1, visited, web)
            ELSE LET here == IF kind = "doc" THEN <<Request("GET", u)>>
                             ELSE IF web[u] THEN <<Request("HEAD", u), Request("GET", u)>>
                             ELSE <<Request("HEAD", u)>>
                     rest == AloneLoop(kind, entries, k + 1,
                                       IF web[u] THEN visited \cup {u} ELSE visited, web)
                 IN [issued |-> here \o rest.issued, visited |-> rest.visited]

\* the requests of the crawl of one plan run alone on a new agent
Alone(p, web) ==
    LET subs == AloneLoop("sub", p.sub_pages, 1, {}, web)
        docs == AloneLoop("doc", p.documents, 1, subs.visited, web)
    IN subs.issued \o docs.issued

(***************************************************************************)
(* Properties                                                              *)
(***************************************************************************)
LinkUrls(links) == {links[k].url : k \in 1..Len(links)}

EntryUrls(entries) == {entries[k].url : k \in 1..Len(entries)}

SuccessFields == {"url", "title", "requirements", "analyzed_at", "pages_analyzed",
                  "ai_scraping_plan"}
ErrorFields == {"url", "error", "analyzed_at"}

IsSuccess(r) == DOMAIN r = SuccessFields
IsError(r) == DOMAIN r = ErrorFields

Validated == ret # NoData /\ ~ret.threw

\* C1: Validator soundness. Every url of the validated plan's sub_pages is the
\* url of a harvested page link, whatever the oracle plan held.
ValidatorSoundness ==
    Validated => EntryUrls(ret.plan.sub_pages) \subseteq LinkUrls(arg.links)

\* C1 witness: a plan with an entry that was never harvested is validated, the
\* entry is dropped and a harvested one is kept.
ValidatorDropsInvented ==
    /\ Validated
    /\ Entry(UrlFake) \in Range(arg.plan.sub_pages)
    /\ Len(ret.plan.sub_pages) >= 1
    /\ Len(ret.plan.sub_pages) < Len(arg.plan.sub_pages)

MainPageReachable ==
    events \cap {"planFetchFailed", "planRefetchFailed", "execMainFailed"} = {}

\* C2: Degradable plan. After an unparseable plan response the plan is the main
\* page with empty sub-page and document lists, and the run ends with a success
\* result when the main page is reachable and the classification oracle answers.
DegradablePlan ==
    (pc = "done" /\ "planParseFailed" \in events /\ MainPageReachable
       /\ "classOracleRaised" \notin events)
    => /\ IsSuccess(result)
       /\ result.ai_scraping_plan.sub_pages = <<>>
       /\ Has(result.ai_scraping_plan, "documents")
       /\ result.ai_scraping_plan.documents = <<>>

Unparseable(response) == ~JSONParse(Sanitize(Trim(response)), ClassMembers).ok

\* C3: Fallback totality. An oracle answer that is not JSON after sanitization
\* yields a requirement set with empty attestations, empty non_attestations and
\* a non-empty analysis_notes.
FallbackTotality ==
    (ret # NoData /\ arg.oracle = "answers" /\ Unparseable(arg.response))
    => /\ DOMAIN ret = {"attestations", "non_attestations", "analysis_notes"}
       /\ ret.attestations = Arr(<<>>)
       /\ ret.non_attestations = Arr(<<>>)
       /\ ret.analysis_notes.t = "string"
       /\ ret.analysis_notes # Str("")

\* C3 witness: a response with malformed braces around a requirement has been
\* classified.
MalformedBracesClassified ==
    /\ ret # NoData
    /\ arg.oracle = "answers"
    /\ arg.response = <<"prose", "{", "att1">>
    /\ Unparseable(arg.response)

\* the content fetches the Crawl Executor issued for u
ExecGets(u) ==
    requests.execGet[u]
      + (IF Has(plan, "main_page") /\ plan.main_page.url = u
         THEN requests.execMainGet ELSE 0)

\* the urls the two loops of the Crawl Executor iterate
CrawledSubPages == Slice(plan.sub_pages, Limit(plan, "max_pages", DefaultMaxPages))
CrawledDocuments == Slice(plan.documents, Limit(plan, "max_documents", DefaultMaxDocuments))

\* C4: Deduplication. A URL that the plan lists both as a sub-page and as a
\* document is fetched by the Crawl Executor at most once in a run.
Deduplication ==
    (plan # NoData /\ Has(plan, "documents"))
    => \A u \in EntryUrls(CrawledSubPages) \cap EntryUrls(CrawledDocuments) :
          ExecGets(u) <= 1

\* C5: no exception leaves the Crawl Executor.
ExecutorNeverThrows == exc.from # "aiExecuteScrapingPlan"

\* C6: analyzeSubsidy never throws. When it has returned, no exception is
\* pending and the result is either the success record or the error record.
AnalyzeNeverThrows ==
    /\ pc = "done" =>
         /\ exc = NoExc
         /\ IsSuccess(result) \/ IsError(result)
    /\ pc # "done" => result = NoData

\* C6 witness: an exception of the Crawl Executor ended as an error result.
ExceptionBecameErrorResult ==
    /\ pc = "done"
    /\ "execThrew" \in events
    /\ IsError(result)
    /\ result.error = "TypeError"

NoTargetRequest == \A u \in Urls : requests.execGet[u] = 0 /\ requests.execHead[u] = 0

\* C7: when the first main-page fetch of plan synthesis fails, no oracle call is
\* made, no sub-page or document is requested, and the run ends with an error
\* result.
MainFetchFailureIsFatal ==
    "planFetchFailed" \in events
    => /\ requests.planOracle = 0
       /\ requests.classOracle = 0
       /\ NoTargetRequest
       /\ allDocuments = <<>>
       /\ pc = "done" => IsError(result)

\* C7 witness: the first fetch failed, the second fetch of the catch succeeded,
\* and the run still ended with an error result.
FailedFetchThenErrorResult ==
    /\ pc = "done"
    /\ "planFetchFailed" \in events
    /\ "planRefetchFailed" \notin events
    /\ requests.planGet = 2
    /\ IsError(result)

\* C8 as stated: a raising oracle call, at plan synthesis or at classification,
\* ends the run with an error result.
OracleFailureIsFatal ==
    (pc = "done" /\ events \cap {"planOracleRaised", "classOracleRaised"} # {})
    => IsError(result)

\* C8 amended: a raising oracle call at plan synthesis ends the run with an
\* error result; a raising oracle call at classification is absorbed, the run
\* ends with a success result whose requirement set is the fallback set.
OracleFailureOutcome ==
    pc = "done" =>
      /\ "planOracleRaised" \in events => IsError(result)
      /\ "classOracleRaised" \in events =>
           IsSuccess(result) /\ result.requirements = fallbackAnalysis

\* C8 witness: the classification oracle call raised and the run has returned.
ClassificationOracleRaised ==
    /\ pc = "done"
    /\ "classOracleRaised" \in events
    /\ requests.classOracle = 1

\* C9: No retry. Plan synthesis fetches the main page exactly once and calls
\* the oracle at most once, classification calls the oracle at most once.
NoRetry ==
    /\ requests.planGet <= 1
    /\ requests.planOracle <= 1
    /\ requests.classOracle <= 1
    /\ pc \notin {"plan_scrape", "idle"} => requests.planGet = 1

ParsedObject(response) ==
    ClassObject(JSONParse(Sanitize(Trim(response)), ClassMembers).members)

ParsesToValue(response) ==
    LET parsed == JSONParse(Sanitize(Trim(response)), ClassMembers)
    IN parsed.ok /\ parsed.kind # "null"

\* C10 as stated: when the response parses as JSON, an absent field takes the
\* empty sequence, the empty sequence and the empty string, and a field that is
\* present is returned unchanged.
PopulatedWithEmptyDefaults ==
    (ret # NoData /\ arg.oracle = "answers" /\ ~Unparseable(arg.response))
    => LET obj == ParsedObject(arg.response)
       IN /\ ret.attestations =
               IF Has(obj, "attestations") THEN obj.attestations ELSE Arr(<<>>)
          /\ ret.non_attestations =
               IF Has(obj, "non_attestations") THEN obj.non_attestations ELSE Arr(<<>>)
          /\ ret.analysis_notes =
               IF Has(obj, "analysis_notes") THEN obj.analysis_notes ELSE Str("")

\* C10 amended: when the response parses as a JSON value other than null, a
\* field that is absent, null or the empty string is replaced by the empty
\* sequence (attestations, non_attestations) or by 'AI analysis completed'
\* (analysis_notes), every other field is returned unchanged, and the body of
\* POST /analyze carries the same three values.
PopulatedWithDefaults ==
    (ret # NoData /\ arg.oracle = "answers" /\ ParsesToValue(arg.response))
    => LET obj == ParsedObject(arg.response)
           kept(name) == Has(obj, name) /\ obj[name] \notin {Null, Str("")}
       IN /\ DOMAIN ret = {"attestations", "non_attestations", "analysis_notes"}
          /\ ret.attestations =
               IF kept("attestations") THEN obj.attestations ELSE Arr(<<>>)
          /\ ret.non_attestations =
               IF kept("non_attestations") THEN obj.non_attestations ELSE Arr(<<>>)
          /\ ret.analysis_notes =
               IF kept("analysis_notes") THEN obj.analysis_notes
               ELSE Str("AI analysis completed")
          /\ AnalyzeResponse(ret) = ret

\* C10 witness: a JSON object wrapped in prose, with attestations and without
\* analysis_notes, has been classified.
PartialObjectClassified ==
    /\ ret # NoData
    /\ arg.oracle = "answers"
    /\ arg.response = <<"prose", "{", "att1", "}">>
    /\ ret.attestations = Arr(<<"kvk">>)
    /\ ret.analysis_notes = Str("AI analysis completed")

\* C11 as stated: every document whose bytes were fetched has a DocumentRecord,
\* also when the extractor returned empty text.
FetchedDocumentRecorded ==
    Len(allDocuments) = requests.docBytes

\* C11 amended: a document whose bytes were fetched is recorded exactly when
\* its extracted text is not empty; with empty text it gets no record, is not
\* marked visited and no error is raised for it.
DocumentRecordedWithText ==
    /\ \A k \in 1..Len(allDocuments) :
         /\ allDocuments[k].textContent # ""
         /\ allDocuments[k].url \in visitedUrls
    /\ visitedUrls \subseteq EntryUrls(allPages) \cup EntryUrls(allDocuments)
    /\ Len(allDocuments) <= requests.docBytes
    /\ ("docEmptyText" \in events) <=> (Len(allDocuments) < requests.docBytes)
    /\ "docEmptyText" \in events => exc = NoExc /\ ~IsError(result)

\* C11 witness: the bytes of a document arrived, its text was empty, and the
\* run ended with a success result and no record of it.
EmptyDocumentDropped ==
    /\ pc = "done"
    /\ IsSuccess(result)
    /\ requests.docBytes = 1
    /\ allDocuments = <<>>
    /\ "docEmptyText" \in events

TargetRequestIssued ==
    \/ requests'.execGet # requests.execGet
    \/ requests'.execHead # requests.execHead

\* the targets the executor recorded: the sub-page records and the documents
RecordedTargets ==
    LET subs == {k \in 1..Len(allPages) : allPages[k].reason # "Main subsidy page"}
    IN Cardinality(subs) + Len(allDocuments)

\* C12 as stated: after the bytes of a target were retrieved, no request for a
\* later target is issued before a delay step.
DelayAfterRetrieved ==
    [][TargetRequestIssued => sinceDelay = "none"]_vars

\* C12 amended: after a target was recorded (a sub-page retrieved, or a
\* document with non-empty extracted text) no request for a later target is
\* issued before a delay step, and there is exactly one delay per recorded
\* target; a document with empty text is followed by no delay.
DelayAfterRecorded ==
    [][/\ TargetRequestIssued => sinceDelay # "recorded"
       /\ (RecordedTargets = requests.delays
             + IF pc \in {"exec_sub_delay", "exec_doc_delay"} THEN 1 ELSE 0)']_vars

\* C12 witness: a target was recorded, the delay elapsed, and the request for
\* a later target is in flight.
RequestAfterDelay ==
    /\ requests.delays >= 1
    /\ pc = "exec_doc"
    /\ inflight = 1
    /\ sinceDelay = "none"

\* plan synthesis, crawl, classification, result
Stage(p) ==
    CASE p \in {"plan_scrape", "plan_oracle", "plan_rescrape"} -> 1
      [] p \in {"exec_main", "exec_sub", "exec_sub_get", "exec_sub_delay",
                "exec_doc", "exec_doc_delay"} -> 2
      [] p = "classify" -> 3
      [] p \in {"catch", "done"} -> 4
      [] OTHER -> 0

\* C13: at most one request is in flight, a request is issued only when none
\* is in flight, and the stages plan synthesis, crawl, classification are
\* never re-entered.
SequentialRequests ==
    [][/\ inflight' <= 1
       /\ inflight' > inflight => inflight = 0
       /\ Stage(pc') >= Stage(pc)]_vars

\* C13 witness: the plan oracle call has completed and a document fetch of
\* the crawl stage is in flight.
DocumentFetchInFlight ==
    /\ inflight = 1
    /\ pc = "exec_doc"
    /\ requests.planOracle = 1
    /\ requests.execMainGet = 1

RECURSIVE IsSubsequence(_, _)
\* the entries of a are entries of b, in the order they have in b
IsSubsequence(a, b) ==
    IF a = <<>> THEN TRUE
    ELSE IF b = <<>> THEN FALSE
    ELSE IF Head(a) = Head(b) THEN IsSubsequence(Tail(a), Tail(b))
    ELSE IsSubsequence(a, Tail(b))

InSubPageLoop == pc \in {"exec_sub", "exec_sub_get", "exec_sub_delay"}
InDocumentLoop == pc \in {"exec_doc", "exec_doc_delay"}

\* C18: Crawl bounds. The sub-page loop iterates over at most max_pages
\* entries and the document loop over at most max_documents entries, the first
\* ones in plan order, for every non-negative limit the plan states; 8 and 5
\* apply only when the plan states no limit.
CrawlBounds ==
    /\ InSubPageLoop =>
         /\ Len(targets) <= IF Has(plan, "max_pages") THEN plan.max_pages
                            ELSE DefaultMaxPages
         /\ targets = SubSeq(plan.sub_pages, 1, Len(targets))
    /\ InDocumentLoop =>
         /\ Len(targets) <= IF Has(plan, "max_documents") THEN plan.max_documents
                            ELSE DefaultMaxDocuments
         /\ targets = SubSeq(plan.documents, 1, Len(targets))

MainFetchSucceeded ==
    /\ Has(plan, "main_page")
    /\ requests.execMainGet = 1
    /\ "execMainFailed" \notin events

SuccessReturned == pc = "done" /\ IsSuccess(result)

\* the parts of C19 that do not depend on what the first title is
FirstRecordAndOrder ==
    /\ SuccessReturned =>
         /\ result.pages_analyzed = Len(allPages)
         /\ allPages # <<>> =>
              IF MainFetchSucceeded
                THEN /\ allPages[1].url = plan.main_page.url
                     /\ allPages[1].reason = "Main subsidy page"
                ELSE /\ allPages[1].reason # "Main subsidy page"
                     /\ allPages[1].url \in EntryUrls(plan.sub_pages) \cap visitedUrls
         /\ allPages = <<>> => ~MainFetchSucceeded
    \* the main page is attempted before every sub-page and document
    /\ pc \in {"plan_scrape", "plan_oracle", "plan_rescrape", "exec_main"} =>
         \A u \in Urls : requests.execHead[u] = 0 /\ requests.execGet[u] = 0
    /\ (InSubPageLoop \/ InDocumentLoop) /\ Has(plan, "main_page") =>
         requests.execMainGet = 1
    \* an error result comes from plan synthesis or from the documents slice,
    \* never from the failed main-page fetch of the crawl
    /\ (pc = "done" /\ IsError(result)) =>
         events \cap {"planRefetchFailed", "execThrew"} # {}

\* C19 as stated: title is the first page record's title, and it is 'Unknown'
\* exactly when no page was retrieved or that first title is empty.
TitleUnknownExactly ==
    /\ FirstRecordAndOrder
    /\ SuccessReturned =>
         /\ result.title = "Unknown" <=> (allPages = <<>> \/ allPages[1].title = "")
         /\ result.title # "Unknown" => result.title = allPages[1].title

\* C19 amended: title is the first page record's title when there is a first
\* record and its title is not empty, and 'Unknown' otherwise, so it is also
\* 'Unknown' when the first page is titled Unknown; pages_analyzed is the
\* number of page records; the first record is the main page only when the
\* crawl fetched it, otherwise a retrieved sub-page; the main page is
\* attempted first and its failure is not an error.
TitleOfFirstRecord ==
    /\ FirstRecordAndOrder
    /\ SuccessReturned =>
         result.title = IF allPages = <<>> \/ allPages[1].title = "" THEN "Unknown"
                        ELSE allPages[1].title

\* C19 witness: the crawl's fetch of the main page failed, a sub-page was
\* retrieved, and the success result carries the sub-page's title.
SubPageTitleReturned ==
    /\ SuccessReturned
    /\ "execMainFailed" \in events
    /\ Len(allPages) = 1
    /\ allPages[1].url = UrlA
    /\ result.title = "T"
    /\ result.pages_analyzed = 1

Harvested == ret # NoData

NoDuplicateUrl(links) ==
    \A j, k \in 1..Len(links) : links[j].url = links[k].url => j = k

\* C15: the page-link set and the document-link set of one harvest are
\* disjoint, and no link whose URL contains a document extension is in the
\* page-link set.
HarvestDisjoint ==
    Harvested =>
      /\ LinkUrls(ret.actualLinks) \cap LinkUrls(ret.documentLinks) = {}
      /\ \A k \in 1..Len(ret.actualLinks) : ~isDocument(ret.actualLinks[k].url)

\* C16: each of the two link sets of one harvest is deduplicated by exact URL
\* equality, also when several anchors have the same href.
HarvestDeduplicated ==
    Harvested =>
      /\ NoDuplicateUrl(ret.actualLinks)
      /\ NoDuplicateUrl(ret.documentLinks)

IsPrefix(a, b) == Len(a) <= Len(b) /\ a = SubSeq(b, 1, Len(a))

Retrieved(r) ==
    {runs.of[r].issued[k].url : k \in {j \in 1..Len(runs.of[r].issued) :
        runs.of[r].issued[j].method = "GET" /\ arg.web[runs.of[r].issued[j].url]}}

\* C14: two analyses served at the same time do not interfere. Under every
\* interleaving of their awaits the VisitedSet an analysis uses holds only
\* URLs that analysis retrieved itself, and the analysis issues the requests
\* it issues when run alone, all of them once it is done.
ConcurrentAnalysesIndependent ==
    \A r \in Requests :
      /\ RunVisited(r) \subseteq Retrieved(r)
      /\ IsPrefix(runs.of[r].issued, Alone(arg.plans[r], arg.web))
      /\ runs.of[r].at = "done" => runs.of[r].issued = Alone(arg.plans[r], arg.web)

\* C14 witness: both analyses had the same sub-page, the first marked it
\* visited, and the second probed and fetched it all the same.
BothFetchedSameUrl ==
    /\ arg.plans[1].sub_pages = <<Entry(UrlA)>>
    /\ arg.plans[2].sub_pages = <<Entry(UrlA)>>
    /\ runs.of[1].at = "done"
    /\ UrlA \in RunVisited(1)
    /\ runs.of[2].at = "done"
    /\ Request("GET", UrlA) \in Range(runs.of[2].issued)

====
